---- MODULE Spec2Model ----
(***************************************************************************)
(* SCPI over RS232: the instrument objects of src/SCPI/RS232.py (RS232,    *)
(* DMM34401A, MX34970A) and the acquisition loop read_instruments.         *)
(*                                                                         *)
(* Python values are tagged records: a str is its sequence of characters,  *)
(* an int its number, a float an exact decimal (sign, digits, number of    *)
(* fractional digits), a list its elements, None a tag.  Bytes on a serial *)
(* line are TLA+ strings (commands written) or sequences of characters     *)
(* (response lines, which the code slices and parses).                     *)
(***************************************************************************)
EXTENDS Integers, Sequences, FiniteSets, TLC

(* ------------------------------------------------------------------ *)
(* Bounds of the model                                                 *)
(* ------------------------------------------------------------------ *)
MaxIns == 2        \* instruments in one acquisition run
MaxMeasTime == 6   \* largest meas_time (seconds) of a run
MaxSleep == 1      \* largest sleep_time (seconds) of a run
MaxDelay == 1      \* largest transfer time (seconds) of one response line
MaxCalls == 2      \* direct set_CONF calls in one session
MaxCh == 3         \* channels in a direct scanner configuration
MaxRecords == 3    \* records of a run whose cycles take no time

(* ------------------------------------------------------------------ *)
(* Python values                                                       *)
(* ------------------------------------------------------------------ *)
PyStr(cs) == [ty |-> "str", cs |-> cs]
PyInt(n) == [ty |-> "int", n |-> n]
PyFloat(neg, n, e) == [ty |-> "float", neg |-> neg, n |-> n, e |-> e]
PyList(xs) == [ty |-> "list", xs |-> xs]
PyNone == [ty |-> "none"]

IsList(v) == v.ty = "list"
IsStr(v) == v.ty = "str"

RECURSIVE Concat(_)
\* ''.join(cs): the text of a sequence of strings
Concat(ss) == IF ss = <<>> THEN "" ELSE Head(ss) \o Concat(Tail(ss))

RECURSIVE Join(_, _)
\* sep.join(ss)
Join(sep, ss) ==
  IF ss = <<>> THEN ""
  ELSE IF Len(ss) = 1 THEN ss[1]
  ELSE ss[1] \o sep \o Join(sep, Tail(ss))

RECURSIVE Pow10(_)
Pow10(k) == IF k = 0 THEN 1 ELSE 10 * Pow10(k - 1)

RECURSIVE ZeroPad(_, _)
\* the decimal digits of n, left-padded with zeros to width w
ZeroPad(n, w) == IF w = 0 THEN "" ELSE ZeroPad(n \div 10, w - 1) \o ToString(n % 10)

\* str(x) of a float (positional notation; the responses of the model stay
\* inside the range where Python prints no exponent)
FloatText(v) ==
  (IF v.neg THEN "-" ELSE "")
    \o ToString(v.n \div Pow10(v.e))
    \o "."
    \o (IF v.e = 0 THEN "0" ELSE ZeroPad(v.n % Pow10(v.e), v.e))

RECURSIVE Text(_)
RECURSIVE Repr(_)
\* str(v), which is also what an f-string's {v} inserts
Text(v) ==
  CASE v.ty = "str" -> Concat(v.cs)
    [] v.ty = "int" -> ToString(v.n)
    [] v.ty = "float" -> FloatText(v)
    [] v.ty = "none" -> "None"
    [] v.ty = "list" -> "[" \o Join(", ", [k \in 1..Len(v.xs) |-> Repr(v.xs[k])]) \o "]"

\* repr(v): a str inside a list prints quoted
Repr(v) == IF v.ty = "str" THEN "'" \o Concat(v.cs) \o "'" ELSE Text(v)

(* ------------------------------------------------------------------ *)
(* Response parsing: temp.decode()[:-2], float(...), str.split(',')    *)
(* ------------------------------------------------------------------ *)
Digit == {"0", "1", "2", "3", "4", "5", "6", "7", "8", "9"}
Whitespace == {" ", "\t", "\r", "\n"}

DigitVal(c) == CHOOSE d \in 0..9 : ToString(d) = c

RECURSIVE NumVal(_)
\* the number a sequence of digits writes
NumVal(ds) ==
  IF ds = <<>> THEN 0
  ELSE 10 * NumVal(SubSeq(ds, 1, Len(ds) - 1)) + DigitVal(ds[Len(ds)])

Drop(s, k) == SubSeq(s, k + 1, Len(s))

\* length of the longest prefix of s made of digits
DigitSpan(s) ==
  CHOOSE k \in 0..Len(s) :
    /\ \A j \in 1..k : s[j] \in Digit
    /\ k < Len(s) => s[k + 1] \notin Digit

RECURSIVE LStrip(_)
LStrip(s) == IF s # <<>> /\ Head(s) \in Whitespace THEN LStrip(Tail(s)) ELSE s

RECURSIVE RStrip(_)
RStrip(s) ==
  IF s # <<>> /\ s[Len(s)] \in Whitespace THEN RStrip(SubSeq(s, 1, Len(s) - 1)) ELSE s

RECURSIVE Normalize(_, _, _)
\* the decimal n / 10^e without trailing fractional zeros
Normalize(neg, n, e) ==
  IF e > 0 /\ n % 10 = 0 THEN Normalize(neg, n \div 10, e - 1) ELSE PyFloat(neg, n, e)

NotFloat == [ok |-> FALSE, val |-> PyNone]

\* the float with digits mant and scale fractional digits (scale may be negative)
Scaled(neg, mant, scale) ==
  [ok |-> TRUE,
   val |-> IF scale >= 0 THEN Normalize(neg, mant, scale)
           ELSE PyFloat(neg, mant * Pow10(0 - scale), 0)]

IsNeg(s) == s # <<>> /\ s[1] = "-"
SkipSign(s) == IF s # <<>> /\ s[1] \in {"+", "-"} THEN Tail(s) ELSE s
LeadingDigits(s) == SubSeq(s, 1, DigitSpan(s))
AfterDigits(s) == Drop(s, DigitSpan(s))

\* the digits of an exponent, which must end the text
FloatExpDigits(neg, mant, nf, eneg, s) ==
  IF s # <<>> /\ DigitSpan(s) = Len(s)
  THEN Scaled(neg, mant, IF eneg THEN nf + NumVal(s) ELSE nf - NumVal(s))
  ELSE NotFloat

\* after the mantissa: the end of the text, or an exponent
FloatExponent(neg, mant, nf, s) ==
  IF s = <<>> THEN Scaled(neg, mant, nf)
  ELSE IF s[1] \in {"e", "E"}
  THEN FloatExpDigits(neg, mant, nf, IsNeg(Tail(s)), SkipSign(Tail(s)))
  ELSE NotFloat

\* a mantissa needs a digit before or after its point
FloatMantissa(neg, ip, fp, s) ==
  IF ip \o fp = <<>> THEN NotFloat
  ELSE FloatExponent(neg, NumVal(ip \o fp), Len(fp), s)

\* after the integer digits ip: an optional point and fractional digits
FloatFraction(neg, ip, s) ==
  IF s # <<>> /\ s[1] = "."
  THEN FloatMantissa(neg, ip, LeadingDigits(Tail(s)), AfterDigits(Tail(s)))
  ELSE FloatMantissa(neg, ip, <<>>, s)

FloatUnsigned(neg, s) == FloatFraction(neg, LeadingDigits(s), AfterDigits(s))

FloatSigned(s) == FloatUnsigned(IsNeg(s), SkipSign(s))

\* float(text) on decimal literals: [sign] digits [. digits] [(e|E) [sign] digits]
\* between optional whitespace; ok is FALSE where float raises ValueError.
\* (inf, nan and digit-group underscores use characters no response line of the
\* model contains.)
FloatParse(text) == FloatSigned(RStrip(LStrip(text)))

\* s[:-2]
StripTerminator(s) == IF Len(s) >= 2 THEN SubSeq(s, 1, Len(s) - 2) ELSE <<>>

RECURSIVE Split(_, _)
\* s.split(sep) for a one-character sep
Split(s, sep) ==
  IF \A j \in 1..Len(s) : s[j] # sep THEN <<s>>
  ELSE LET k == CHOOSE j \in 1..Len(s) : s[j] = sep /\ \A i \in 1..(j - 1) : s[i] # sep
       IN  <<SubSeq(s, 1, k - 1)>> \o Split(Drop(s, k), sep)

\* a byte that is not ASCII and starts no UTF-8 sequence
ByteFF == "\\xff"

\* temp.decode(): the characters of an ASCII line; a line holding a byte that is
\* not UTF-8 raises UnicodeDecodeError
Decode(temp) ==
  [ok |-> \A k \in 1..Len(temp) : temp[k] # ByteFF, text |-> temp]

\* RS232.read_meas after readline: the float the line writes, or on ValueError
\* the line without its last two characters, as a str. UnicodeDecodeError is
\* a ValueError: the handler of line 190 decodes again, and raises it again.
ParseMeas(temp) ==
  LET text == StripTerminator(Decode(temp).text)
      f == FloatParse(text)
  IN  IF ~Decode(temp).ok THEN [exc |-> "UnicodeDecodeError", val |-> PyNone]
      ELSE [exc |-> "none", val |-> IF f.ok THEN f.val ELSE PyStr(text)]

\* MX34970A.read_meas on the value of RS232.read_meas: a str is split on commas
\* and every segment converted; one segment that float() rejects raises ValueError
ParseScan(ret) ==
  IF IsStr(ret)
  THEN LET segs == Split(ret.cs, ",")
           fs == [k \in 1..Len(segs) |-> FloatParse(segs[k])]
       IN  IF \A k \in 1..Len(segs) : fs[k].ok
           THEN [exc |-> "none", val |-> PyList([k \in 1..Len(segs) |-> fs[k].val])]
           ELSE [exc |-> "ValueError", val |-> PyNone]
  ELSE [exc |-> "none", val |-> ret]

(* ------------------------------------------------------------------ *)
(* Command encoding: set_CONFIG and the two set_CONF variants          *)
(* ------------------------------------------------------------------ *)
Chars(v) == [k \in 1..Len(v.cs) |-> PyStr(<<v.cs[k]>>)]

\* what a for loop or a generator gets from v: the elements of a list, the
\* characters of a str; an int, a float or None is not iterable (TypeError)
Iter(v) ==
  CASE v.ty = "list" -> [ok |-> TRUE, xs |-> v.xs]
    [] v.ty = "str" -> [ok |-> TRUE, xs |-> Chars(v)]
    [] OTHER -> [ok |-> FALSE, xs |-> <<>>]

\* a table whose 4-wire resistance row repeats the 2-wire verb
VerbSlipped(tag) ==
  CASE tag = "DCV" -> "CONF:VOLT:DC"
    [] tag = "ACV" -> "CONF:VOLT:AC"
    [] tag = "DCI" -> "CONF:CURR:DC"
    [] tag = "ACI" -> "CONF:CURR:AC"
    [] tag = "RES2" -> "CONF:RES"
    [] tag = "RES4" -> "CONF:RES"
    [] tag = "FREQ" -> "CONF:FREQ"
    [] tag = "PER" -> "CONF:PER"
    [] OTHER -> ""

\* the SCPI verb of a mode tag, "" for a tag set_CONFIG does not know
Verb(tag) ==
  CASE tag = "DCV" -> "CONF:VOLT:DC"
    [] tag = "ACV" -> "CONF:VOLT:AC"
    [] tag = "DCI" -> "CONF:CURR:DC"
    [] tag = "ACI" -> "CONF:CURR:AC"
    [] tag = "RES2" -> "CONF:RES"
    [] tag = "RES4" -> "CONF:FRES"
    [] tag = "FREQ" -> "CONF:FREQ"
    [] tag = "PER" -> "CONF:PER"
    [] OTHER -> ""

\* RS232.set_CONFIG(conf, params): the lines it writes to the serial port
set_CONFIG(conf, params) ==
  IF IsStr(conf) /\ Verb(Text(conf)) # ""
  THEN <<Verb(Text(conf)) \o " " \o params \o "\n">>
  ELSE <<>>

\* a meter set_CONF that addresses the channels it is given, as a scanner does
DMM34401A_set_CONF_addressed(conf, val_range, val_res, unused) ==
  [exc |-> "none",
   out |-> set_CONFIG(conf,
              Text(val_range) \o ", " \o Text(val_res)
                \o (IF IsList(unused)
                    THEN ", (@" \o Join(",", [k \in 1..Len(unused.xs) |-> Text(unused.xs[k])])
                           \o ")"
                    ELSE ""))]

\* DMM34401A.set_CONF(conf, val_range, val_res, _): the lines written and the
\* exception raised
DMM34401A_set_CONF(conf, val_range, val_res, unused) ==
  [exc |-> "none",
   out |-> set_CONFIG(conf, Text(val_range) \o ", " \o Text(val_res))]

RECURSIVE PerChannel(_, _, _, _, _)
\* the loop of MX34970A.set_CONF over enumerate(channels), from index k on
PerChannel(conf, chs, ranges, val_res, k) ==
  IF k > Len(chs) \/ k > Len(ranges) THEN <<>>
  ELSE set_CONFIG(conf, Text(ranges[k]) \o ", " \o Text(val_res)
                          \o ", (@" \o Text(chs[k]) \o ")")
       \o PerChannel(conf, chs, ranges, val_res, k + 1)

\* a set_CONF that batches all channels whatever the range is
MX34970A_set_CONF_batched(conf, channels, val_range, val_res) ==
  LET it == Iter(channels)
  IN  IF ~it.ok THEN [exc |-> "TypeError", out |-> <<>>]
      ELSE [exc |-> "none",
            out |-> set_CONFIG(conf,
                       Text(val_range) \o ", " \o Text(val_res) \o ", (@"
                         \o Join(",", [k \in 1..Len(it.xs) |-> Text(it.xs[k])]) \o ")")]

\* MX34970A.set_CONF(conf, channels, val_range, val_res)
MX34970A_set_CONF(conf, channels, val_range, val_res) ==
  LET it == Iter(channels)
  IN  IF ~it.ok THEN [exc |-> "TypeError", out |-> <<>>]
      ELSE IF IsList(val_range)
      THEN [exc |-> IF Len(it.xs) > Len(val_range.xs) THEN "IndexError" ELSE "none",
            out |-> PerChannel(conf, it.xs, val_range.xs, val_res, 1)]
      ELSE [exc |-> "none",
            out |-> set_CONFIG(conf,
                       Text(val_range) \o ", " \o Text(val_res) \o ", (@"
                         \o Join(",", [k \in 1..Len(it.xs) |-> Text(it.xs[k])]) \o ")")]

\* ins.set_CONF(a, b, c, d): Python binds the four positional arguments to the
\* parameters of the method of the instrument's class, in their order
set_CONF(kind, a, b, c, d) ==
  IF kind = "DMM" THEN DMM34401A_set_CONF(a, b, c, d) ELSE MX34970A_set_CONF(a, b, c, d)

\* ins.read_meas() on the line readline returned: the value, or the exception
read_meas(kind, temp) ==
  IF kind = "DMM" \/ ParseMeas(temp).exc # "none" THEN ParseMeas(temp)
  ELSE ParseScan(ParseMeas(temp).val)

(* ------------------------------------------------------------------ *)
(* Inputs of the model                                                 *)
(* ------------------------------------------------------------------ *)
sDEF == PyStr(<<"D", "E", "F">>)
sMIN == PyStr(<<"M", "I", "N">>)
mDCV == PyStr(<<"D", "C", "V">>)
mACV == PyStr(<<"A", "C", "V">>)
mDCI == PyStr(<<"D", "C", "I">>)
mACI == PyStr(<<"A", "C", "I">>)
mRES2 == PyStr(<<"R", "E", "S", "2">>)
mRES4 == PyStr(<<"R", "E", "S", "4">>)
mFREQ == PyStr(<<"F", "R", "E", "Q">>)
mPER == PyStr(<<"P", "E", "R">>)
mTEMP == PyStr(<<"T", "E", "M", "P">>)   \* a tag set_CONFIG does not know

KnownModes == {mDCV, mACV, mDCI, mACI, mRES2, mRES4, mFREQ, mPER}
AllModes == KnownModes \cup {mTEMP}
RunModes == {mDCV, mTEMP}

Kinds == {"DMM", "MX"}
InsLists == UNION {[1..n -> Kinds] : n \in 1..MaxIns}

\* the channel list [101, ..., 100+n] and the range list [10, ..., 10n]
ChannelList(n) == PyList([k \in 1..n |-> PyInt(100 + k)])
RangeList(n) == PyList([k \in 1..n |-> PyInt(10 * k)])
Channels2 == ChannelList(2)
Ranges2 == RangeList(2)

\* response lines an instrument may answer READ? with: one value, two values,
\* text, a value and text
LineValue == <<"+", "1", ".", "5", "E", "+", "0", "0", "\r", "\n">>
LineTwo == <<"1", ".", "5", ",", "2", "\r", "\n">>
LineText == <<"X", "\r", "\n">>
LineMixed == <<"1", ".", "5", ",", "X", "\r", "\n">>
Lines(kind) ==
  IF kind = "DMM" THEN {LineValue, LineText}
  ELSE {LineValue, LineTwo, LineText, LineMixed}

\* a line that noise on the serial line corrupted
LineNoise == <<ByteFF, "\r", "\n">>

\* the arguments of one read_instruments call, the kinds of its instruments and
\* the transfer time of a response line
ConfScenarios ==
  {[ins |-> il, filename |-> FALSE, conf |-> c, val_range |-> r, val_res |-> s,
    channels |-> ch, sleep_time |-> 0, meas_time |-> 0, delay |-> 0,
    noise |-> FALSE] :
     il \in InsLists,
     c \in RunModes \cup {PyList(q) : q \in UNION {[1..n -> RunModes] : n \in 1..MaxIns}},
     r \in {sDEF, PyInt(10), Ranges2},
     s \in {sMIN, PyList(<<PyInt(1), PyInt(2)>>)},
     ch \in {PyNone, Channels2}}

\* runs that read: every mix of instruments with one timing, every timing
\* with meters only (or with no instrument: init_instruments returns [] when
\* read_ports finds no port), and one instrument on a noisy line
LoopScenarios ==
  {[ins |-> il, filename |-> f, conf |-> mDCV, val_range |-> sDEF, val_res |-> sMIN,
    channels |-> Channels2, sleep_time |-> 0, meas_time |-> 5, delay |-> 0,
    noise |-> FALSE] :
     il \in InsLists, f \in BOOLEAN}
  \cup
  {[ins |-> [k \in 1..n |-> "DMM"], filename |-> TRUE, conf |-> mDCV,
    val_range |-> sDEF, val_res |-> sMIN, channels |-> PyNone,
    sleep_time |-> st, meas_time |-> mt, delay |-> d, noise |-> FALSE] :
     n \in 0..MaxIns, st \in 0..MaxSleep, mt \in {0, 5, MaxMeasTime},
     d \in 0..MaxDelay}
  \cup
  {[ins |-> <<k>>, filename |-> FALSE, conf |-> mDCV, val_range |-> sDEF,
    val_res |-> sMIN, channels |-> Channels2, sleep_time |-> 0, meas_time |-> 5,
    delay |-> 0, noise |-> TRUE] : k \in Kinds}

\* a per-instrument conf list has one mode per instrument
Scenarios ==
  {sc \in ConfScenarios \cup LoopScenarios :
     IsList(sc.conf) => Len(sc.conf.xs) = Len(sc.ins)}

(* ------------------------------------------------------------------ *)
(* State                                                               *)
(* ------------------------------------------------------------------ *)
VARIABLES
  ins,           \* the instruments list: the class of each instrument
  args,          \* the arguments of the read_instruments call
  pc,            \* the statement of read_instruments about to run
  conf,          \* read_instruments' conf after line 68: one mode per instrument
  idx,           \* position in the for loop over instruments (1-based)
  now,           \* time.time(), whole seconds
  tic,           \* start time
  toc,           \* time of the current cycle
  measurements,  \* the values read in the current cycle
  wire,          \* per instrument: the lines written to its serial port
  rx,            \* per instrument: the response lines waiting in its serial port
  console,       \* the records printed, each a list of values
  sink,          \* the lines appended to the output file
  result,        \* how the call ended: "none" while it runs, "returned",
                 \* "cancelled" (returned from the except clause), or the
                 \* exception that reached the caller
  calls,         \* direct set_CONF calls made
  last,          \* the latest direct set_CONF call: instrument, arguments, outcome
  run,           \* 1: the first execution; 2: the same call executed again
  tape,          \* per instrument: the lines it answered in the first execution
  refSink,       \* the output file the first execution left
  stamps         \* per instrument: the time.time() at which each line of wire
                 \* was written

vars == <<ins, args, pc, conf, idx, now, tic, toc, measurements, wire, rx,
          console, sink, result, calls, last, run, tape, refSink, stamps>>

N == Len(ins)

\* RS232.__init__: the handshake is on the wire once the port is open
Opened == <<"SYST:REM\n">>

NoCall == [i |-> 0]

\* instruments il constructed, read_instruments' frame holding arguments a, at
\* statement p
Fresh(il, a, p) ==
  /\ ins = il
  /\ args = a
  /\ pc = p
  /\ conf = <<>>
  /\ idx = 0
  /\ now = 0
  /\ tic = 0
  /\ toc = 0
  /\ measurements = <<>>
  /\ wire = [i \in 1..Len(il) |-> Opened]
  /\ stamps = [i \in 1..Len(il) |-> <<0>>]
  /\ rx = [i \in 1..Len(il) |-> <<>>]
  /\ console = <<>>
  /\ sink = <<>>
  /\ result = "none"
  /\ calls = 0
  /\ last = NoCall

\* read_instruments is entered with the arguments of a scenario
InitRun ==
  /\ \E sc \in Scenarios : Fresh(sc.ins, sc, "norm")
  /\ run = 1
  /\ tape = [i \in 1..N |-> <<>>]
  /\ refSink = <<>>

\* the arguments read_instruments has by default (line 45), with no output file
DefaultArgs(il) ==
  [ins |-> il, filename |-> FALSE, conf |-> mDCV, val_range |-> sDEF,
   val_res |-> sMIN, channels |-> PyNone, sleep_time |-> 0, meas_time |-> 10000,
   delay |-> 0, noise |-> FALSE]

\* one instrument constructed and used directly, without read_instruments
InitDirect ==
  /\ \E k \in Kinds : Fresh(<<k>>, DefaultArgs(<<k>>), "direct")
  /\ run = 1
  /\ tape = [i \in 1..N |-> <<>>]
  /\ refSink = <<>>

Init == InitRun \/ InitDirect

(* ------------------------------------------------------------------ *)
(* read_instruments                                                    *)
(* ------------------------------------------------------------------ *)
\* the statements inside the try block of lines 80-100
TryPcs == {"while", "toc", "read", "rm_sleep", "rm_readline", "sink", "sleep"}

Elapsed == PyFloat(FALSE, toc - tic, 0)

\* vals of line 91
Record == <<Elapsed>> \o measurements

\* the line written to the output file for a record (line 97)
FileLine(vals) == Join(",", [k \in 1..Len(vals) |-> Text(vals[k])]) \o "\n"

\* lines 67-68: conf becomes a list, one mode per instrument
Normalize_conf ==
  /\ pc = "norm"
  /\ conf' = IF IsList(args.conf) THEN args.conf.xs ELSE [k \in 1..N |-> args.conf]
  /\ idx' = 1
  /\ pc' = "conf"
  /\ UNCHANGED <<ins, args, now, tic, toc, measurements, wire, rx, console, sink,
                 result, calls, last, run, tape, refSink, stamps>>

\* the arguments line 70 passes after the mode, in the order it passes them
ConfArgs == <<args.val_range, args.val_res, args.channels>>

\* lines 69-70: the next instrument's set_CONF; an exception it raises reaches
\* the caller of read_instruments
Configure ==
  /\ pc = "conf"
  /\ IF idx <= N
     THEN LET r == set_CONF(ins[idx], conf[idx], ConfArgs[1], ConfArgs[2], ConfArgs[3])
          IN  /\ wire' = [wire EXCEPT ![idx] = @ \o r.out]
              /\ stamps' = [stamps EXCEPT ![idx] = @ \o [k \in 1..Len(r.out) |-> now]]
              /\ pc' = IF r.exc = "none" THEN "conf_sleep" ELSE "done"
              /\ result' = r.exc
     ELSE /\ pc' = "settle"
          /\ UNCHANGED <<wire, stamps, result>>
  /\ UNCHANGED <<ins, args, conf, idx, now, tic, toc, measurements, rx, console,
                 sink, calls, last, run, tape, refSink>>

\* line 71: time.sleep(5) after each instrument's configuration
ConfigureSleep ==
  /\ pc = "conf_sleep"
  /\ now' = now + 5
  /\ idx' = idx + 1
  /\ pc' = "conf"
  /\ UNCHANGED <<ins, args, conf, tic, toc, measurements, wire, rx, console, sink,
                 result, calls, last, run, tape, refSink, stamps>>

\* line 73: time.sleep(10) before reading begins
Settle ==
  /\ pc = "settle"
  /\ now' = now + 10
  /\ pc' = "tic"
  /\ UNCHANGED <<ins, args, conf, idx, tic, toc, measurements, wire, rx, console,
                 sink, result, calls, last, run, tape, refSink, stamps>>

\* lines 76-77: tic = time.time(); toc = tic
StartClock ==
  /\ pc = "tic"
  /\ tic' = now
  /\ toc' = now
  /\ pc' = "while"
  /\ UNCHANGED <<ins, args, conf, idx, now, measurements, wire, rx, console, sink,
                 result, calls, last, run, tape, refSink, stamps>>

\* a loop condition that lets the cycle at the bound run
ContinueInclusive == (toc - tic) <= args.meas_time

\* the loop condition of line 81, on the toc of the cycle before
Continue == (toc - tic) < args.meas_time

\* line 81: another cycle, or the normal return
LoopTest ==
  /\ pc = "while"
  /\ IF Continue
     THEN pc' = "toc" /\ result' = result
     ELSE pc' = "done" /\ result' = "returned"
  /\ UNCHANGED <<ins, args, conf, idx, now, tic, toc, measurements, wire, rx,
                 console, sink, calls, last, run, tape, refSink, stamps>>

\* lines 82-83: toc = time.time(); measurements = []
BeginCycle ==
  /\ pc = "toc"
  /\ Len(console) < MaxRecords
  /\ toc' = now
  /\ measurements' = <<>>
  /\ idx' = 1
  /\ pc' = "read"
  /\ UNCHANGED <<ins, args, conf, now, tic, wire, rx, console, sink, result, calls,
                 last, run, tape, refSink, stamps>>

\* READ? lines written to instrument i so far
Queries(i) == Len(SelectSeq(wire[i], LAMBDA c : c = "READ?\n"))

\* the lines instrument i may answer READ? with, as they arrive
Answers(i) == Lines(ins[i]) \cup (IF args.noise THEN {LineNoise} ELSE {})

\* lines 84-85, 185: the next instrument's read_meas writes READ?; the instrument
\* answers with one line (the line it answered at this point of the first
\* execution when the call is executed again)
WriteQuery ==
  /\ pc = "read"
  /\ idx <= N
  /\ wire' = [wire EXCEPT ![idx] = Append(@, "READ?\n")]
  /\ stamps' = [stamps EXCEPT ![idx] = Append(@, now)]
  /\ \E line \in Answers(idx) :
       /\ run = 2 /\ Queries(idx) < Len(tape[idx]) => line = tape[idx][Queries(idx) + 1]
       /\ rx' = [rx EXCEPT ![idx] = Append(@, line)]
       /\ tape' = IF run = 1 THEN [tape EXCEPT ![idx] = Append(@, line)] ELSE tape
  /\ pc' = "rm_sleep"
  /\ UNCHANGED <<ins, args, conf, idx, now, tic, toc, measurements, console, sink,
                 result, calls, last, run, refSink>>

\* line 186: time.sleep(5) between the query and the read
QuerySleep ==
  /\ pc = "rm_sleep"
  /\ now' = now + 5
  /\ pc' = "rm_readline"
  /\ UNCHANGED <<ins, args, conf, idx, tic, toc, measurements, wire, rx, console,
                 sink, result, calls, last, run, tape, refSink, stamps>>

\* lines 86-89: a list value is spliced into measurements, any other appended
Collect(ms, val) == IF IsList(val) THEN ms \o val.xs ELSE Append(ms, val)

\* lines 187-192 (and 263-268 for a scanner), 86-89: readline takes the first
\* waiting line (it blocks while there is none), read_meas converts it, and
\* the value joins measurements; ValueError ends read_instruments
ReadLine ==
  /\ pc = "rm_readline"
  /\ rx[idx] # <<>>
  /\ LET r == read_meas(ins[idx], Head(rx[idx]))
     IN  /\ rx' = [rx EXCEPT ![idx] = Tail(@)]
         /\ now' = now + args.delay
         /\ IF r.exc = "none"
            THEN /\ measurements' = Collect(measurements, r.val)
                 /\ idx' = idx + 1
                 /\ pc' = "read"
                 /\ result' = result
            ELSE /\ pc' = "done"
                 /\ result' = r.exc
                 /\ UNCHANGED <<measurements, idx>>
  /\ UNCHANGED <<ins, args, conf, tic, toc, wire, console, sink, calls, last, run,
                 tape, refSink, stamps>>

\* lines 91-92: the record is printed once every instrument is read
Emit ==
  /\ pc = "read"
  /\ idx > N
  /\ console' = Append(console, Record)
  /\ pc' = "sink"
  /\ UNCHANGED <<ins, args, conf, idx, now, tic, toc, measurements, wire, rx, sink,
                 result, calls, last, run, tape, refSink, stamps>>

\* lines 95-97: the record's line is appended to the file, if there is one
SinkWrite ==
  /\ pc = "sink"
  /\ sink' = IF args.filename THEN Append(sink, FileLine(Record)) ELSE sink
  /\ pc' = "sleep"
  /\ UNCHANGED <<ins, args, conf, idx, now, tic, toc, measurements, wire, rx,
                 console, result, calls, last, run, tape, refSink, stamps>>

\* line 100: time.sleep(sleep_time)
Sleep ==
  /\ pc = "sleep"
  /\ now' = now + args.sleep_time
  /\ pc' = "while"
  /\ UNCHANGED <<ins, args, conf, idx, tic, toc, measurements, wire, rx, console,
                 sink, result, calls, last, run, tape, refSink, stamps>>

\* a handler that saves the readings of the cycle it interrupts
ExceptHandlerFlushes(file, partial) ==
  IF partial = <<>> THEN file
  ELSE Append(file, Join(",", [k \in 1..Len(partial) |-> Text(partial[k])]) \o "\n")

\* lines 102-104: what the except clause leaves in the file
ExceptHandler(file, partial) == file

\* KeyboardInterrupt, raised at whichever statement is about to run: inside the
\* try block the except clause runs and read_instruments returns; at lines
\* 62-77 nothing catches it
Interrupt ==
  /\ pc \notin {"done", "direct"}
  /\ IF pc \in TryPcs
     THEN /\ result' = "cancelled"
          /\ sink' = ExceptHandler(sink, measurements)
     ELSE /\ result' = "KeyboardInterrupt"
          /\ sink' = sink
  /\ pc' = "done"
  /\ UNCHANGED <<ins, args, conf, idx, now, tic, toc, measurements, wire, rx,
                 console, calls, last, run, tape, refSink, stamps>>

\* the same call once more, from the same start: same instruments, arguments,
\* clock and answers, after an execution that no interrupt cut short
Rerun ==
  /\ pc = "done"
  /\ run = 1
  /\ result \in {"returned", "ValueError", "UnicodeDecodeError"}
  /\ pc' = "norm"
  /\ conf' = <<>>
  /\ idx' = 0
  /\ now' = 0
  /\ tic' = 0
  /\ toc' = 0
  /\ measurements' = <<>>
  /\ wire' = [i \in 1..N |-> Opened]
  /\ stamps' = [i \in 1..N |-> <<0>>]
  /\ rx' = [i \in 1..N |-> <<>>]
  /\ console' = <<>>
  /\ sink' = <<>>
  /\ result' = "none"
  /\ run' = 2
  /\ refSink' = sink
  /\ UNCHANGED <<ins, args, calls, last, tape>>

\* the scenarios after whose cancelled run the caller calls read_instruments
\* again: one instrument, no file
FollowUp == N = 1 /\ ~args.filename /\ ~args.noise /\ args.meas_time = 5

\* read_instruments is called again on the same instruments after a run that
\* an interrupt ended: the ports, and what waits in them, stay as they are
NextRun ==
  /\ pc = "done"
  /\ run = 1
  /\ result = "cancelled"
  /\ FollowUp
  /\ pc' = "norm"
  /\ conf' = <<>>
  /\ idx' = 0
  /\ measurements' = <<>>
  /\ console' = <<>>
  /\ result' = "none"
  /\ run' = 3
  /\ UNCHANGED <<ins, args, now, tic, toc, wire, rx, sink, calls, last, tape,
                 refSink, stamps>>

(* ------------------------------------------------------------------ *)
(* Direct calls of set_CONF                                            *)
(* ------------------------------------------------------------------ *)
\* an optional argument the caller leaves out
Absent == [ty |-> "absent"]
Bind(v, default) == IF v = Absent THEN default ELSE v

\* the argument tuples <<conf, a, b, c>> of the direct calls of the model, in
\* the order of the parameters of the class's set_CONF
DirectCalls(kind) ==
  IF kind = "DMM"
  THEN {<<m, sDEF, sMIN, c>> : m \in AllModes, c \in {Absent, PyNone, Channels2}}
       \cup {<<mDCV, r, s, c>> :
               r \in {Absent, PyInt(10), Ranges2}, s \in {Absent, PyInt(1)},
               c \in {Absent, PyNone, ChannelList(1), Channels2}}
  ELSE {<<m, Channels2, r, sMIN>> : m \in AllModes, r \in {PyInt(10), Ranges2}}
       \cup {<<mDCV, ChannelList(n), r, Absent>> :
               n \in 1..MaxCh,
               r \in {Absent, PyInt(10)} \cup {RangeList(k) : k \in 1..MaxCh}}

\* the call with the defaults of lines 210 and 238 bound
Call(kind, t) ==
  IF kind = "DMM"
  THEN DMM34401A_set_CONF(t[1], Bind(t[2], sDEF), Bind(t[3], sMIN), Bind(t[4], PyNone))
  ELSE MX34970A_set_CONF(t[1], t[2], Bind(t[3], sDEF), Bind(t[4], sMIN))

\* the caller configures its instrument itself, waiting 5 s after each call as
\* line 71 does; last keeps this call and the one before it
DirectSetCONF ==
  /\ pc = "direct"
  /\ calls < MaxCalls
  /\ now >= 5 * calls
  /\ \E t \in DirectCalls(ins[1]) :
       LET r == Call(ins[1], t)
       IN  /\ wire' = [wire EXCEPT ![1] = @ \o r.out]
           /\ stamps' = [stamps EXCEPT ![1] = @ \o [k \in 1..Len(r.out) |-> now]]
           /\ last' = [i |-> 1, call |-> t, before |-> Len(wire[1]), exc |-> r.exc,
                       prev |-> IF calls = 0 THEN <<>> ELSE last.call,
                       pbefore |-> IF calls = 0 THEN 0 ELSE last.before]
  /\ calls' = calls + 1
  /\ UNCHANGED <<ins, args, pc, conf, idx, now, tic, toc, measurements, rx, console,
                 sink, result, run, tape, refSink>>

\* the caller waits between two of its calls
DirectPause ==
  /\ pc = "direct"
  /\ calls > 0
  /\ now < 5 * calls
  /\ now' = now + 5
  /\ UNCHANGED <<ins, args, pc, conf, idx, tic, toc, measurements, wire, rx,
                 console, sink, result, calls, last, run, tape, refSink, stamps>>

Next ==
  \/ Normalize_conf \/ Configure \/ ConfigureSleep \/ Settle \/ StartClock
  \/ LoopTest \/ BeginCycle \/ WriteQuery \/ QuerySleep \/ ReadLine \/ Emit
  \/ SinkWrite \/ Sleep \/ Interrupt \/ Rerun \/ NextRun \/ DirectSetCONF
  \/ DirectPause

Spec == Init /\ [][Next]_vars

(* ------------------------------------------------------------------ *)
(* Claims                                                              *)
(* ------------------------------------------------------------------ *)
\* the configuration lines on instrument i's wire: all but handshake and queries
ConfLines(i) == SelectSeq(wire[i], LAMBDA c : c \notin {"SYST:REM\n", "READ?\n"})

\* line 70 has run for instrument i and the read loop has not begun
ConfDone(i) ==
  \/ pc = "conf" /\ idx > i
  \/ pc = "conf_sleep" /\ idx >= i
  \/ pc \in {"settle", "tic"}

\* the run ended without an interrupt
Uninterrupted == pc = "done" /\ result \notin {"cancelled", "KeyboardInterrupt"}

\* C1: a single bad reading never aborts a run. Once the read loop has sent a
\* query, a run that no interrupt ended has returned normally, and only after
\* its duration had elapsed.
C1_BadReadingNeverAborts ==
  (Uninterrupted /\ \E i \in 1..N : Queries(i) > 0)
    => (result = "returned" /\ ~Continue)

\* the i-th entry of a scalar-or-list argument
PerInstrument(v, i) == IF IsList(v) /\ i <= Len(v.xs) THEN v.xs[i] ELSE v

\* the channel list of a configuration line as the claim describes it
ChannelRef(chs) == "(@" \o Join(",", [k \in 1..Len(chs) |-> Text(chs[k])]) \o ")"

\* C2: read_instruments' configure(mode, range, resolution, channels) delivers
\* each argument to the role of the same name: every configuration line that
\* reaches a scanner carries the range (the scalar, or one entry of the list)
\* as range, the resolution as resolution, and channels of the channel list
\* (all of them, or one) in its (@...) part.
C2_ScannerRolesPreserved ==
  \A i \in 1..N :
    (ins[i] = "MX" /\ IsList(args.channels)) =>
      \A k \in 1..Len(ConfLines(i)) :
        \E r \in {args.val_range}
                   \cup (IF IsList(args.val_range)
                         THEN {args.val_range.xs[j] : j \in 1..Len(args.val_range.xs)}
                         ELSE {}),
           chs \in {args.channels.xs}
                     \cup {<<args.channels.xs[j]>> : j \in 1..Len(args.channels.xs)} :
          ConfLines(i)[k] =
            Verb(Text(PerInstrument(args.conf, i))) \o " " \o Text(r) \o ", "
              \o Text(args.val_res) \o ", " \o ChannelRef(chs) \o "\n"

\* C3: the loop stops without reading once elapsed >= duration, so no read is
\* under way and no record is emitted with elapsed >= meas_time.
C3_ElapsedBelowDuration ==
  /\ pc \in {"read", "rm_sleep", "rm_readline"} => (toc - tic) < args.meas_time
  /\ \A k \in 1..Len(console) : console[k][1].n < args.meas_time

\* the record width the configuration fixes: one per meter, the number of
\* configured channels per scanner
UnitsOf(i) ==
  IF ins[i] = "DMM" THEN 1
  ELSE IF IsList(args.channels) THEN Len(args.channels.xs) ELSE 0

RECURSIVE SumUnits(_)
SumUnits(i) == IF i = 0 THEN 0 ELSE UnitsOf(i) + SumUnits(i - 1)

\* C4: every emitted record has 1 + W entries, W the number of meters plus the
\* configured channel counts of the scanners, whatever the instruments answer.
C4_RecordWidthFixed ==
  \A k \in 1..Len(console) : Len(console[k]) = 1 + SumUnits(N)

\* C5: mode and range are normalized to one value per instrument: the line
\* meter i receives is the verb of mode[i] with range[i] (the scalar when a
\* scalar is given) as its range.
C5_RangePerInstrument ==
  \A i \in 1..N :
    (ins[i] = "DMM" /\ ConfDone(i)) =>
      ConfLines(i) =
        (IF Verb(Text(PerInstrument(args.conf, i))) = "" THEN <<>>
         ELSE <<Verb(Text(PerInstrument(args.conf, i))) \o " "
                  \o Text(PerInstrument(args.val_range, i)) \o ", "
                  \o Text(args.val_res) \o "\n">>)

\* C6: cancellation is cooperative. A cancelled run stopped between cycles:
\* every query sent was answered and read, every instrument was read once per
\* printed record, and every printed record is in the file.
C6_CancelBetweenCycles ==
  result = "cancelled" =>
    /\ \A i \in 1..N : Queries(i) = Len(console) /\ rx[i] = <<>>
    /\ args.filename => Len(sink) = Len(console)

\* C8: cancellation is never an error: no interrupt, wherever it arrives in
\* read_instruments, reaches the caller as an exception.
C8_InterruptNeverRaises == result # "KeyboardInterrupt"

\* C7: with the same configuration, clock and answers, what a cancelled run
\* leaves in the file is a prefix of what the uncancelled run leaves: in the
\* second execution every line of the file is the line the first execution
\* wrote at that position, and it is the whole printed record of its cycle.
C7_CancelledSinkIsPrefix ==
  run = 2 =>
    /\ Len(sink) <= Len(refSink)
    /\ \A k \in 1..Len(sink) :
         sink[k] = refSink[k] /\ k <= Len(console) /\ sink[k] = FileLine(console[k])

\* an interrupt cut the second execution after its first line and before the
\* last line of the first execution
C7_Witness ==
  /\ run = 2
  /\ result = "cancelled"
  /\ Len(sink) >= 1
  /\ Len(sink) < Len(refSink)
  /\ measurements # <<>>

\* the latest direct call, its arguments with defaults bound, and what it wrote
LastKind == ins[last.i]
LastMode == last.call[1]
LastWritten == SubSeq(wire[last.i], last.before + 1, Len(wire[last.i]))
LastChannels == last.call[2].xs
LastRange == IF LastKind = "DMM" THEN Bind(last.call[2], sDEF) ELSE Bind(last.call[3], sDEF)
LastRes == IF LastKind = "DMM" THEN Bind(last.call[3], sMIN) ELSE Bind(last.call[4], sMIN)

\* the verb prefix the mode table documents for a tag
TablePrefix(tag) ==
  CASE tag = mDCV -> "CONF:VOLT:DC"
    [] tag = mACV -> "CONF:VOLT:AC"
    [] tag = mDCI -> "CONF:CURR:DC"
    [] tag = mACI -> "CONF:CURR:AC"
    [] tag = mRES2 -> "CONF:RES"
    [] tag = mRES4 -> "CONF:FRES"
    [] tag = mFREQ -> "CONF:FREQ"
    [] tag = mPER -> "CONF:PER"

\* C9: a scanner set_CONF (for a mode of the table) with a scalar range over
\* channels c1..cn writes exactly one line, whose channel list is (@c1,...,cn);
\* with ranges r1..rn it writes exactly n lines, the i-th with range ri and the
\* single channel (@ci).
C9_ScannerBatchOrPerChannel ==
  (last.i > 0 /\ LastKind = "MX" /\ LastMode \in KnownModes) =>
    IF IsList(LastRange)
    THEN Len(LastRange.xs) = Len(LastChannels) =>
           /\ Len(LastWritten) = Len(LastChannels)
           /\ \A k \in 1..Len(LastChannels) :
                LastWritten[k] =
                  TablePrefix(LastMode) \o " " \o Text(LastRange.xs[k]) \o ", "
                    \o Text(LastRes) \o ", " \o ChannelRef(<<LastChannels[k]>>) \o "\n"
    ELSE LastWritten =
           <<TablePrefix(LastMode) \o " " \o Text(LastRange) \o ", " \o Text(LastRes)
               \o ", " \o ChannelRef(LastChannels) \o "\n">>

\* a scanner was configured per channel over three channels, and another time
\* with one range over several channels
C9_Witness ==
  /\ last.i > 0 /\ LastKind = "MX" /\ LastMode \in KnownModes
  /\ IsList(LastRange) /\ Len(LastRange.xs) = 3 /\ Len(LastChannels) = 3
  /\ Len(LastWritten) = 3
  /\ \E k \in 1..last.before : wire[1][k] = "CONF:VOLT:DC 10, MIN, (@101,102)\n"

\* the params string of each set_CONFIG call the latest direct call makes
LastParams ==
  IF LastKind = "DMM" THEN <<Text(LastRange) \o ", " \o Text(LastRes)>>
  ELSE IF IsList(LastRange)
  THEN [k \in 1..(IF Len(LastRange.xs) < Len(LastChannels)
                  THEN Len(LastRange.xs) ELSE Len(LastChannels)) |->
          Text(LastRange.xs[k]) \o ", " \o Text(LastRes) \o ", "
            \o ChannelRef(<<LastChannels[k]>>)]
  ELSE <<Text(LastRange) \o ", " \o Text(LastRes) \o ", " \o ChannelRef(LastChannels)>>

\* C10: set_CONFIG(mode, params) follows the mode table: for each of the eight
\* tags every call writes exactly the line '<prefix> <params>\n'; for any other
\* tag nothing is written and no error is raised, on meter and scanner, and
\* for each command of a per-channel scanner configuration.
C10_ModeTable ==
  last.i > 0 =>
    IF LastMode \in KnownModes
    THEN LastWritten =
           [k \in 1..Len(LastParams) |->
              TablePrefix(LastMode) \o " " \o LastParams[k] \o "\n"]
    ELSE LastWritten = <<>> /\ last.exc = "none"

\* a per-channel scanner configuration in 4-wire resistance wrote its lines
\* after a call with an unknown tag wrote none
C10_Witness ==
  /\ last.i > 0 /\ LastKind = "MX" /\ LastMode = mRES4 /\ IsList(LastRange)
  /\ LastWritten = <<"CONF:FRES 10, MIN, (@101)\n", "CONF:FRES 20, MIN, (@102)\n">>
  /\ last.before = 1
  /\ calls = 2

\* the line instrument i answered to its latest READ? (first execution)
LatestLine(i) == tape[i][Len(tape[i])]

\* the comma segments of a line without its terminator
Segments(line) == Split(StripTerminator(line), ",")

\* C11: a scanner's read_meas raises a parse error for the whole sample only
\* if every comma segment of the response fails to parse: when a run ended in
\* ValueError, no segment of the line just read is a number.
C11_RaisesOnlyIfAllSegmentsFail ==
  (run = 1 /\ pc = "done" /\ result = "ValueError") =>
    \A k \in 1..Len(Segments(LatestLine(idx))) :
      ~FloatParse(Segments(LatestLine(idx))[k]).ok

\* every instrument of the run is a meter
AllMeters == \A i \in 1..N : ins[i] = "DMM"

\* C12: a meter's read_meas never raises on a response line: no run ends with
\* an exception out of a meter's read, and every value a meter returned is the
\* float its line (less the last two characters) writes, or else that text.
C12_MeterReadNeverRaises ==
  /\ (pc = "done" /\ result \in {"ValueError", "UnicodeDecodeError"})
       => ins[idx] # "DMM"
  /\ (run = 1 /\ AllMeters) =>
       \A k \in 1..Len(measurements) :
         measurements[k] =
           (IF FloatParse(StripTerminator(LatestLine(k))).ok
            THEN FloatParse(StripTerminator(LatestLine(k))).val
            ELSE PyStr(StripTerminator(LatestLine(k))))

\* the values instrument i contributed to the k-th record (first execution)
ValuesOf(i, k) == Collect(<<>>, read_meas(ins[i], tape[i][k]).val)

RECURSIVE StartOf(_, _)
\* the record position at which the values of instrument i begin in record k
StartOf(i, k) == IF i = 1 THEN 2 ELSE StartOf(i - 1, k) + Len(ValuesOf(i - 1, k))

\* C14: instruments are read in list order in every cycle, one read completing
\* before the next begins, and the values of instrument i stand at the same
\* positions in every record of the run.
C14_FixedOrderStableColumns ==
  run = 1 =>
    /\ \A i \in 1..(N - 1) :
         Len(tape[i + 1]) <= Len(tape[i]) /\ Len(tape[i]) <= Len(tape[i + 1]) + 1
    /\ \A i \in 1..N : (pc # "done" /\ rx[i] # <<>>) => idx = i
    /\ \A k \in 1..Len(console) : \A i \in 1..N :
         /\ SubSeq(console[k], StartOf(i, k), StartOf(i, k) + Len(ValuesOf(i, k)) - 1)
              = ValuesOf(i, k)
         /\ StartOf(i, k) = StartOf(i, 1)
         /\ Len(ValuesOf(i, k)) = Len(ValuesOf(i, 1))

\* C15: across the records of one run the elapsed field is non-negative and
\* strictly increasing, for every sleep interval including 0.
C15_ElapsedStrictlyIncreasing ==
  /\ \A k \in 1..Len(console) : ~console[k][1].neg
  /\ \A k \in 1..(Len(console) - 1) : console[k][1].n < console[k + 1][1].n

\* C16: a run with duration 0 executes no read cycle: after the configuration
\* phase no READ? is sent to any instrument, no record reaches console or
\* file, and the loop condition sends the run straight to its return.
C16_ZeroDurationReadsNothing ==
  args.meas_time = 0 =>
    /\ \A i \in 1..N : Queries(i) = 0
    /\ console = <<>> /\ sink = <<>>
    /\ pc \notin {"toc", "read", "rm_sleep", "rm_readline", "sink", "sleep"}
    /\ pc = "while" => ~Continue
    /\ (pc = "done" /\ result \notin {"cancelled", "KeyboardInterrupt", "TypeError",
                                      "IndexError"}) => result = "returned"

\* a run of duration 0 configured its two instruments and returned
C16_Witness ==
  /\ args.meas_time = 0
  /\ N = 2
  /\ pc = "done" /\ result = "returned"
  /\ \A i \in 1..N : Len(ConfLines(i)) = 1

\* C17: an uncancelled run with 2 meters, duration 5 and sleep interval 1, time
\* advancing by the pauses of the code alone, has produced between 4 and 6
\* records when it returns, each of width 3.
C17_TwoMetersFourToSixRecords ==
  (/\ N = 2 /\ AllMeters
   /\ args.meas_time = 5 /\ args.sleep_time = 1 /\ args.delay = 0
   /\ run = 1 /\ pc = "done" /\ result = "returned")
    => /\ Len(console) >= 4 /\ Len(console) <= 6
       /\ \A k \in 1..Len(console) : Len(console[k]) = 3

\* what the direct call before the latest wrote
PrevWritten == SubSeq(wire[last.i], last.pbefore + 1, last.before)

\* the latest two direct calls gave the same mode, range and resolution
SameButChannels ==
  /\ last.prev[1] = last.call[1]
  /\ Bind(last.prev[2], sDEF) = Bind(last.call[2], sDEF)
  /\ Bind(last.prev[3], sMIN) = Bind(last.call[3], sMIN)

\* C18: a meter's set_CONF ignores its channels argument: two calls with the
\* same mode, range and resolution write the same bytes, whether the channels
\* argument is absent, None or a channel list.
C18_MeterIgnoresChannels ==
  (calls >= 2 /\ LastKind = "DMM" /\ SameButChannels) => LastWritten = PrevWritten

\* a call without channels was followed by the same call with two channels, and
\* both wrote a command
C18_Witness ==
  /\ calls >= 2 /\ LastKind = "DMM" /\ SameButChannels
  /\ last.prev[4] = Absent /\ last.call[4] = Channels2
  /\ LastWritten # <<>>

\* a line that configures: neither the handshake nor a query
IsConf(c) == c \notin {"SYST:REM\n", "READ?\n"}

\* C19: between two successive configuration commands written to the same
\* instrument a pause occurs: of two configuration commands that follow each
\* other on an instrument's port, the second is written at a later time.
C19_PauseBetweenConfCommands ==
  \A i \in 1..N : \A k \in 1..(Len(wire[i]) - 1) :
    (IsConf(wire[i][k]) /\ IsConf(wire[i][k + 1])) => stamps[i][k] < stamps[i][k + 1]

\* C20: request and response alternate on every port, also when a new run
\* follows a cancelled one: at most one response waits in a port, and while
\* it waits the READ? it answers is the last line written to that port.
C20_RequestResponseAlternation ==
  \A i \in 1..N :
    /\ Len(rx[i]) <= 1
    /\ rx[i] # <<>> => wire[i][Len(wire[i])] = "READ?\n"

====
